---- MODULE Spec2Model ----
(***************************************************************************)
(* A model of lib/smtp/client.js: the SMTP session driver (the Client      *)
(* object), its one-shot "packet" listeners on the packet handler, the     *)
(* promises its operations return, and the transport it writes to.         *)
(*                                                                         *)
(* Representation.                                                         *)
(*  - A reply packet is [status, data]; status is the three-digit code as  *)
(*    a string, data is the list of reply lines.  A reply line is given as *)
(*    the list of its space-separated tokens, which is what                *)
(*    line.split(" ") returns; Join(tokens, " ") is the line itself.       *)
(*  - Everything written to the socket is a string, built with \o.         *)
(*  - One step of the model is one turn of the event loop: a call made by  *)
(*    the caller, the delivery of one reply packet to the listeners, a     *)
(*    process.nextTick callback, or a 'drain' event.  A handler runs to    *)
(*    completion inside its step, every call it makes included.            *)
(*  - A transport error is one more kind of step: the socket emits        *)
(*    'error', once, and delivers nothing afterwards.  What the platform   *)
(*    does with a write to a socket that was ended or has failed (an       *)
(*    exception, or a write that is dropped), and what the promise library *)
(*    does when a promise that has fired is fired again, are inputs of a   *)
(*    step (throws, again).                                                *)
(*  - The caller is the environment.  Inside a completion callback it may  *)
(*    synchronously invoke one more operation (the parameter react).       *)
(*  - The past is kept only as far as it is read: an operation is dropped  *)
(*    from ops when its promise fires, and event describes the             *)
(*    latest step (what was written, which listeners ran, which promises   *)
(*    fired).                                                              *)
(***************************************************************************)
EXTENDS Integers, Sequences, FiniteSets, TLC

\* Bounds of the model.
MaxOps == 3       \* operations the caller invokes
MaxPkts == 4      \* reply packets the packet handler emits
MaxOverlap == 1   \* operations invoked while an earlier one is still pending
MaxClosed == 1    \* operations invoked while no socket is open
MaxCalls == 2     \* operations the caller invokes while chunks are assembled
MaxLines == 3     \* reply lines the server sends to the reply assembler

\* The caller's inputs.
Host == "localhost"
Address == "user@example.com"
Body == "Subject: hi\r\n\r\nhello"
Line == "NOOP"

\* The lines the caller hands to parseCapabilities, as packet.data holds them.
CapabilityLines == << <<"x">>, <<"STARTTLS">>, <<"AUTH", "PLAIN">>, <<"__proto__">> >>

VARIABLES
  socket,          \* this.socket: 0 is null, n is the n-th connection created
  ended,           \* the connections on which socket.end() was called
  errored,         \* the connections whose socket emitted 'error'
  connections,     \* per connect call: its socket, its promise, its greeting
  listeners,       \* the "packet" listeners of this.packetHandler, in order
  waiting,         \* this.waiting (undefined reads as false)
  esmtp,           \* this.esmtp
  capabilities,    \* this.capabilities
  connected,       \* this.connected (undefined reads as false)
  ops,             \* the operations the caller invoked whose promise is pending
  drainListeners,  \* the 'drain' listeners sendData registered
  tickQueue,       \* the process.nextTick callbacks sendData queued
  calls,           \* number of operations the caller invoked
  ncmds,           \* number of calls of send() and get()
  pkts,            \* number of reply packets emitted
  greetings,       \* of those, the ones the greeting listener of connect took
  unsolicited,     \* of those, the ones emitted while no listener was registered
  overlaps,        \* operations the caller invoked while one was pending
  closedCalls,     \* operations the caller invoked while no socket was open
  threw,           \* the calls that threw and whose promise or callback has not fired
  event,           \* what the latest step did
  replyLines,      \* the reply lines the server sends, as bytes on the wire
  packetHandler    \* this.packetHandler: its buffers and the packets it emitted

clientVars == <<socket, ended, errored, connections, listeners, waiting, esmtp, capabilities,
                connected, ops, drainListeners, tickQueue, calls, ncmds, pkts, greetings,
                unsolicited, overlaps, closedCalls, threw, event>>

vars == <<socket, ended, errored, connections, listeners, waiting, esmtp, capabilities, connected, ops,
          drainListeners, tickQueue, calls, ncmds, pkts, greetings, unsolicited,
          overlaps, closedCalls, threw, event, replyLines, packetHandler>>

-----------------------------------------------------------------------------
\* Reply packets.

NoPacket == [status |-> "", data |-> <<>>]   \* emitSuccess() / emitError() without argument

P220E == [status |-> "220", data |-> << <<"mx1.example.com", "(Esmtp)", "Ready">> >>]
P220  == [status |-> "220", data |-> << <<"mail.example.com", "Ready">> >>]
P250A == [status |-> "250", data |-> << <<"mail.example.com">>, <<"SIZE", "10485760">>, <<"8BITMIME">> >>]
P250B == [status |-> "250", data |-> << <<"mail.example.com">>, <<"PIPELINING">> >>]
P354  == [status |-> "354", data |-> << <<"Go", "ahead">> >>]
P221  == [status |-> "221", data |-> << <<"Bye">> >>]
P550  == [status |-> "550", data |-> << <<"No", "such", "user">> >>]

\* The error a socket emits.
TransportError == [status |-> "ECONNRESET", data |-> <<>>]

Packets == {P220E, P220, P250A, P250B, P354, P221, P550}

\* Array.prototype.join
RECURSIVE Join(_, _)
Join(a, sep) ==
  IF Len(a) = 0 THEN ""
  ELSE IF Len(a) = 1 THEN a[1]
  ELSE a[1] \o sep \o Join(Tail(a), sep)

\* The lines of a packet as the strings the code holds: the words of a line
\* separated by single spaces.
RECURSIVE LinesOf(_)
LinesOf(data) ==
  IF data = <<>> THEN <<>> ELSE <<Join(Head(data), " ")>> \o LinesOf(Tail(data))

\* String(packet.data): the lines of the array joined by ",".
StringOf(data) == Join(LinesOf(data), ",")

\* /ESMTP/i at position i of str: the five letters in either case.
MatchesAt(str, i) ==
  /\ SubSeq(str, i, i) \in {"e", "E"}
  /\ SubSeq(str, i + 1, i + 1) \in {"s", "S"}
  /\ SubSeq(str, i + 2, i + 2) \in {"m", "M"}
  /\ SubSeq(str, i + 3, i + 3) \in {"t", "T"}
  /\ SubSeq(str, i + 4, i + 4) \in {"p", "P"}

\* /ESMTP/i.test(packet.data): the array is converted to a string and the
\* pattern is searched at every position of it.
TestESMTP(data) ==
  LET str == StringOf(data)
  IN \E i \in 1..(Len(str) - 4) : MatchesAt(str, i)

-----------------------------------------------------------------------------
\* Capabilities: an object, here a function from keys to values.  A value is
\* the boolean true or a string.

CapTrue == [flag |-> TRUE, text |-> ""]
CapText(t) == [flag |-> FALSE, text |-> t]
NoCapabilities == [k \in {} |-> CapTrue]

\* obj[key] = value, for a value that is true or a string.  The key
\* "__proto__" names the prototype of the object, not a property of its
\* own: assigning a boolean or a string to it stores nothing.
Put(obj, key, value) ==
  IF key = "__proto__" THEN obj
  ELSE [k \in DOMAIN obj \cup {key} |-> IF k = key THEN value ELSE obj[k]]

\* The value parseCapabilities stores for a line split into item.
CapValue(item) == IF Len(item) > 1 THEN CapText(Join(item, " ")) ELSE CapTrue

RECURSIVE ParseFrom(_, _, _)
ParseFrom(caps, data, i) ==
  IF i > Len(data) THEN caps
  ELSE ParseFrom(Put(caps, data[i][1], CapValue(data[i])), data, i + 1)

\* Client.prototype.parseCapabilities: the loop starts at index 1 (the second
\* line) and assigns into this.capabilities.
parseCapabilities(caps, data) == ParseFrom(caps, data, 2)

-----------------------------------------------------------------------------
\* The state as one record, so that a handler's calls can be composed.

State ==
  [socket |-> socket, ended |-> ended, errored |-> errored,
   connections |-> connections, listeners |-> listeners, waiting |-> waiting,
   esmtp |-> esmtp, capabilities |-> capabilities, connected |-> connected,
   ops |-> ops, drainListeners |-> drainListeners, tickQueue |-> tickQueue,
   calls |-> calls, ncmds |-> ncmds, pkts |-> pkts, greetings |-> greetings,
   unsolicited |-> unsolicited, overlaps |-> overlaps, closedCalls |-> closedCalls,
   threw |-> threw,
   event |-> event]

SetClient(s) ==
  /\ socket' = s.socket
  /\ ended' = s.ended
  /\ errored' = s.errored
  /\ connections' = s.connections
  /\ listeners' = s.listeners
  /\ waiting' = s.waiting
  /\ esmtp' = s.esmtp
  /\ capabilities' = s.capabilities
  /\ connected' = s.connected
  /\ ops' = s.ops
  /\ drainListeners' = s.drainListeners
  /\ tickQueue' = s.tickQueue
  /\ calls' = s.calls
  /\ ncmds' = s.ncmds
  /\ pkts' = s.pkts
  /\ greetings' = s.greetings
  /\ unsolicited' = s.unsolicited
  /\ overlaps' = s.overlaps
  /\ closedCalls' = s.closedCalls
  /\ threw' = s.threw
  /\ event' = s.event

\* A step of the session driver in which the socket delivers no bytes.
SetState(s) ==
  /\ SetClient(s)
  /\ UNCHANGED <<replyLines, packetHandler>>

\* F applied to the value of e, with e evaluated once.
Strict(F(_), e) == CHOOSE r \in {F(v) : v \in {e}} : TRUE

\* The record of a step: its kind ("init", "call", "packet", "tick", "drain", "error"),
\* the packet emitted, what was written to the socket, the commands sent
\* (each with the number of commands in flight when it was sent, and whether
\* the socket was open and whether it had been ended), the
\* listeners that ran, the promises that fired and the sockets that were
\* ended, in order; queued lists the sendData calls that returned, with what
\* socket.write reported; called lists the functions the caller invoked;
\* thrown tells that an exception is propagating, caught counts the
\* exceptions the caller caught.
NewEvent(kind, packet) ==
  [kind |-> kind, packet |-> packet, written |-> <<>>, sent |-> <<>>,
   fired |-> <<>>, settled |-> <<>>, ended |-> <<>>, queued |-> <<>>,
   called |-> <<>>, thrown |-> FALSE, caught |-> 0]

\* The state at the start of a step, with the inputs of the step: throws
\* (socket.write on a closed socket throws; otherwise the bytes are dropped)
\* and again (a promise that has fired runs its callbacks when fired again;
\* otherwise it ignores the call).
Begin(s, kind, packet, throws, again) ==
  [s EXCEPT !.event = NewEvent(kind, packet)] @@ [throws |-> throws, again |-> again]

\* The entries of the log of an operation: a write and a reply.
W(bytes) == [t |-> "write", bytes |-> bytes, packet |-> NoPacket]
R(packet) == [t |-> "reply", bytes |-> "", packet |-> packet]

\* A promise is named by the call of the caller it belongs to, the operation
\* that created it and whether the caller invoked that operation itself
\* (top) or a composite operation (connect, data) did.
Promise(call, op, top) == [call |-> call, op |-> op, top |-> top]
Parent(pr, op) == Promise(pr.call, op, TRUE)

OpsOf(s, call) == SelectSeq(s.ops, LAMBDA o : o.call = call)
LogOf(s, call) == IF OpsOf(s, call) = <<>> THEN <<>> ELSE OpsOf(s, call)[1].log
\* The greeting packet the listener of connect closed over.
AuxOf(s, call) ==
  LET cs == SelectSeq(s.connections, LAMBDA c : c.pr.call = call)
  IN IF cs = <<>> THEN NoPacket ELSE cs[1].greeting

\* The promise of an operation the caller invoked has fired when the
\* operation is no longer pending, unless its call threw: then nothing has
\* fired, and the operation is not pending because the caller holds no
\* promise.  The promise of a sendData whose 'drain' listener is still
\* registered has fired when that listener has run.
HasFired(s, pr) ==
  \/ /\ pr.top /\ pr.call \in 1..s.calls
     /\ OpsOf(s, pr.call) = <<>> /\ pr.call \notin s.threw
  \/ \E i \in 1..Len(s.drainListeners) :
       s.drainListeners[i].pr = pr /\ s.drainListeners[i].ran

LogTo(s, call, entry) ==
  [s EXCEPT !.ops = [i \in 1..Len(s.ops) |->
                       IF s.ops[i].call = call
                       THEN [s.ops[i] EXCEPT !.log = Append(@, entry)]
                       ELSE s.ops[i]]]

\* removeListener: the first occurrence of l is taken out.
RECURSIVE Remove(_, _)
Remove(seq, l) ==
  IF seq = <<>> THEN <<>>
  ELSE IF Head(seq) = l THEN Tail(seq)
  ELSE <<Head(seq)>> \o Remove(Tail(seq), l)

\* The promise fires with outcome "success" or "error" and a value; again
\* tells that it had fired before.
Fire(s, pr, outcome, value) ==
  Strict(LAMBDA v :
           [v EXCEPT !.event.settled =
                        Append(@, [pr |-> pr, outcome |-> outcome, value |-> value,
                                   log |-> IF pr.top THEN LogOf(v, pr.call) ELSE <<>>,
                                   again |-> HasFired(v, pr)]),
                     !.ops = IF pr.top THEN SelectSeq(@, LAMBDA o : o.call # pr.call)
                             ELSE @,
                     !.threw = IF pr.top THEN @ \ {pr.call} ELSE @],
         s)

\* The one-shot listeners of commands that are registered: the commands in
\* flight.
SendListeners(ls) == SelectSeq(ls, LAMBDA l : l.kind \in {"send", "get"})

-----------------------------------------------------------------------------
\* The operations of the Client.

\* The socket is open: it exists, was not ended and has not failed.
Usable(s) == s.socket # 0 /\ s.socket \notin s.ended \cup s.errored

\* socket.write(bytes), for the operation of call.  this.socket is null
\* before the first connect, and the call throws; on a socket that is not
\* open it throws or drops the bytes, as the platform has it.
write(s, bytes, call) ==
  Strict(LAMBDA v :
           IF v.socket = 0 \/ (~Usable(v) /\ v.throws)
           THEN [v EXCEPT !.event.thrown = TRUE]
           ELSE LogTo([v EXCEPT !.event.written =
                                  Append(@, [socket |-> v.socket, bytes |-> bytes,
                                             open |-> Usable(v)])],
                      call, W(bytes)),
         s)

\* Client.prototype.writeline
writeline(s, line, call) == write(s, line \o "\r\n", call)

\* Client.prototype.send: sets waiting, registers the one-shot listener, then
\* writes the arguments joined by " ".  pr is the promise of the operation
\* whose callback send's own promise carries; k numbers the commands.  When
\* the write throws, send does not return: the listener stays, and the
\* promise it fires is send's own, to which no callback was added and which
\* belongs to no operation (call 0).
send(s, args, pr) ==
  LET s1 == [s EXCEPT !.waiting = TRUE,
                      !.ncmds = @ + 1,
                      !.event.sent = Append(@, [k |-> s.ncmds + 1,
                                                inflight |-> Len(SendListeners(s.listeners)),
                                                open |-> Usable(s),
                                                ended |-> s.socket \in s.ended]),
                      !.listeners = Append(@, [kind |-> "send", k |-> s.ncmds + 1,
                                               pr |-> pr, wroteAt |-> s.pkts])]
  IN Strict(LAMBDA s2 :
              IF s2.event.thrown
              THEN [s2 EXCEPT !.listeners[Len(s2.listeners)].pr =
                                 Promise(0, "send", FALSE)]
              ELSE s2,
            writeline(s1, Join(args, " "), pr.call))

\* Client.prototype.get, the legacy form of send: the caller's callback takes
\* the place of the promise.
get(s, line, pr) ==
  LET s1 == [s EXCEPT !.waiting = TRUE,
                      !.ncmds = @ + 1,
                      !.event.sent = Append(@, [k |-> s.ncmds + 1,
                                                inflight |-> Len(SendListeners(s.listeners)),
                                                open |-> Usable(s),
                                                ended |-> s.socket \in s.ended]),
                      !.listeners = Append(@, [kind |-> "get", k |-> s.ncmds + 1,
                                               pr |-> pr, wroteAt |-> s.pkts])]
  IN writeline(s1, line, pr.call)

helo(s, pr) == send(s, <<"HELO", Host>>, pr)

ehlo(s, pr) == send(s, <<"EHLO", Host>>, pr)

\* Client.prototype.handshake: the promise of ehlo() or of helo() is
\* returned, to connect (top FALSE) or to the caller.
handshake(s, call, top) ==
  IF s.esmtp THEN ehlo(s, Promise(call, "ehlo", top))
  ELSE helo(s, Promise(call, "helo", top))

\* Variant of mail that writes the address without its angle brackets.
mail_NoBrackets(s, address, pr) == send(s, <<"MAIL", "FROM:", address>>, pr)

mail(s, address, pr) == send(s, <<"MAIL", "FROM:", "<" \o address \o ">">>, pr)

rcpt(s, address, pr) == send(s, <<"RCPT", "TO:", "<" \o address \o ">">>, pr)

beginData(s, pr) == send(s, <<"DATA">>, pr)

endData(s, pr) == send(s, <<"\r\n.">>, pr)

quit(s, pr) == send(s, <<"QUIT">>, pr)

\* Variant of sendData that resolves at once when the write was accepted.
sendData_Synchronous(s, bytes, pr, full) ==
  Strict(LAMBDA s1 :
           IF s1.event.thrown THEN s1
           ELSE IF full
                THEN [s1 EXCEPT !.drainListeners = Append(@, [sock |-> s1.socket, pr |-> pr, ran |-> FALSE]),
                                !.event.queued = Append(@, [pr |-> pr, full |-> full])]
           ELSE Fire([s1 EXCEPT !.event.queued = Append(@, [pr |-> pr, full |-> full])],
                     pr, "success", NoPacket),
         write(s, bytes, pr.call))

\* Client.prototype.sendData: full is what socket.write reported.  A full
\* buffer adds a 'drain' listener to the socket, an accepted write queues a
\* process.nextTick callback.
sendData(s, bytes, pr, full) ==
  Strict(LAMBDA s1 :
           IF s1.event.thrown THEN s1
           ELSE IF full
                THEN [s1 EXCEPT !.drainListeners = Append(@, [sock |-> s1.socket, pr |-> pr, ran |-> FALSE]),
                                !.event.queued = Append(@, [pr |-> pr, full |-> full])]
           ELSE [s1 EXCEPT !.tickQueue = Append(@, pr),
                           !.event.queued = Append(@, [pr |-> pr, full |-> full])],
         write(s, bytes, pr.call))

\* Client.prototype.data: the composite; its later stages are invoked by the
\* callbacks below.
data(s, pr) == beginData(s, Promise(pr.call, "beginData", FALSE))

\* Client.prototype.connect: a new socket with its 'error' listener, and the
\* one-shot greeting listener.
connect(s, pr) ==
  [s EXCEPT !.socket = @ + 1,
            !.connections = Append(@, [sock |-> s.socket + 1, pr |-> pr,
                                       greeting |-> NoPacket]),
            !.listeners = Append(@, [kind |-> "greeting", k |-> 0, pr |-> pr,
                                     wroteAt |-> s.pkts])]

-----------------------------------------------------------------------------
\* The caller.

Verbs == {"connect", "get", "helo", "ehlo", "mail", "rcpt", "beginData",
          "sendData", "endData", "data", "quit", "handshake", "send", "writeline",
          "parseCapabilities"}

\* The functions that return no promise and take no callback: the call is
\* over when it returns.
Helpers == {"writeline", "parseCapabilities"}

\* The functions that do not write to the socket in use.
Socketless == {"connect", "parseCapabilities"}

\* What the caller does inside a completion callback: nothing, or one of the
\* operations that follow another in a mail transaction.
Reacts == {"none", "connect", "ehlo", "mail", "rcpt", "data", "quit"}

CanInvoke(s, verb) ==
  /\ verb \in Verbs
  /\ s.calls < MaxOps
  /\ s.ops = <<>> \/ s.overlaps < MaxOverlap
  /\ verb \in Socketless \/ Usable(s) \/ s.closedCalls < MaxClosed

\* The caller kept the discipline so far: one operation at a time, and
\* commands only while the socket is open.
Disciplined == overlaps = 0 /\ closedCalls = 0

\* The operation whose promise the call of verb returns.
OpOf(s, verb) ==
  IF verb = "handshake" THEN (IF s.esmtp THEN "ehlo" ELSE "helo") ELSE verb

\* The caller invokes verb: the operation is pending from now on, unless verb
\* is a helper.  When the call throws, the caller catches the exception and
\* holds no promise.
invoke(s, verb, full) ==
  LET id == s.calls + 1
      pr == Promise(id, verb, TRUE)
      s1 == [s EXCEPT !.calls = id,
                      !.event.called = Append(@, verb),
                      !.overlaps = IF s.ops = <<>> THEN @ ELSE @ + 1,
                      !.closedCalls = IF verb \in Socketless \/ Usable(s) THEN @ ELSE @ + 1,
                      !.ops = IF verb \in Helpers THEN @
                              ELSE Append(@, [call |-> id, op |-> OpOf(s, verb),
                                              log |-> <<>>])]
  IN Strict(LAMBDA s2 :
              IF s2.event.thrown
              THEN [s2 EXCEPT !.event.thrown = FALSE,
                              !.event.caught = @ + 1,
                              !.threw = IF verb \in Helpers THEN @ ELSE @ \cup {id},
                              !.ops = SelectSeq(@, LAMBDA o : o.call # id)]
              ELSE s2,
            CASE verb = "connect" -> connect(s1, pr)
              [] verb = "get" -> get(s1, Line, pr)
              [] verb = "helo" -> helo(s1, pr)
              [] verb = "ehlo" -> ehlo(s1, pr)
              [] verb = "mail" -> mail(s1, Address, pr)
              [] verb = "rcpt" -> rcpt(s1, Address, pr)
              [] verb = "beginData" -> beginData(s1, pr)
              [] verb = "sendData" -> sendData(s1, Body, pr, full)
              [] verb = "endData" -> endData(s1, pr)
              [] verb = "data" -> data(s1, pr)
              [] verb = "quit" -> quit(s1, pr)
              [] verb = "handshake" -> handshake(s1, id, TRUE)
              [] verb = "send" -> send(s1, <<Line>>, pr)
              [] verb = "writeline" -> writeline(s1, Line, id)
              [] verb = "parseCapabilities" ->
                   [s1 EXCEPT !.capabilities = parseCapabilities(@, CapabilityLines)])

\* The callback or errback the caller attached to the promise of an operation
\* it invoked: it may invoke the next operation at once.
callerCallback(s, react, full) ==
  Strict(LAMBDA v : IF CanInvoke(v, react) THEN invoke(v, react, full) ELSE v, s)

-----------------------------------------------------------------------------
\* The callbacks the composite operations attach to the promises of their
\* stages.

\* connect: client.handshake().addCallback(...) fires the promise of connect
\* with the greeting packet; no errback is attached.
connectOnHandshake(s, pr, react, full) ==
  Strict(LAMBDA v :
           IF HasFired(v, Parent(pr, "connect")) /\ ~v.again THEN v
           ELSE callerCallback(Fire(v, Parent(pr, "connect"), "success",
                                    AuxOf(v, pr.call)),
                               react, full),
         s)

\* data: the callbacks of beginData, of sendData and of endData.
dataOnSuccess(s, pr, react, full) ==
  CASE pr.op = "beginData" -> sendData(s, Body, Promise(pr.call, "sendData", FALSE), full)
    [] pr.op = "sendData" -> endData(s, Promise(pr.call, "endData", FALSE))
    [] pr.op = "endData" ->
         IF HasFired(s, Parent(pr, "data")) /\ ~s.again THEN s
         ELSE callerCallback(Fire(s, Parent(pr, "data"), "success", NoPacket),
                             react, full)

\* data: the errbacks of beginData and of endData.
dataOnError(s, pr, e, react, full) ==
  IF HasFired(s, Parent(pr, "data")) /\ ~s.again THEN s
  ELSE callerCallback(Fire(s, Parent(pr, "data"), "error", e), react, full)

\* promise.emitSuccess(value): the promise fires and its callbacks run.  A
\* promise that has fired either ignores the call or fires again.
emitSuccess(s, pr, value, react, full) ==
  Strict(LAMBDA v :
           IF HasFired(v, pr) /\ ~v.again THEN v
           ELSE IF pr.top THEN callerCallback(Fire(v, pr, "success", value), react, full)
           ELSE IF pr.op \in {"helo", "ehlo"}
                THEN connectOnHandshake(Fire(v, pr, "success", value), pr, react, full)
           ELSE dataOnSuccess(Fire(v, pr, "success", value), pr, react, full),
         s)

\* promise.emitError(value): the promise fires and its errbacks run.
emitError(s, pr, value, react, full) ==
  Strict(LAMBDA v :
           IF HasFired(v, pr) /\ ~v.again THEN v
           ELSE IF pr.top THEN callerCallback(Fire(v, pr, "error", value), react, full)
           ELSE IF pr.op \in {"helo", "ehlo"} THEN Fire(v, pr, "error", value)
           ELSE dataOnError(Fire(v, pr, "error", value), pr, value, react, full),
         s)

-----------------------------------------------------------------------------
\* The callbacks the operations attach to the promise of send.

\* Variant of heloCallback that marks the session connected on any reply.
heloCallback_AnyStatus(s, pr, packet, react, full) ==
  IF packet.status = "250"
  THEN emitSuccess([s EXCEPT !.capabilities = parseCapabilities(@, packet.data),
                             !.connected = TRUE], pr, packet, react, full)
  ELSE emitError([s EXCEPT !.connected = TRUE], pr, packet, react, full)

heloCallback(s, pr, packet, react, full) ==
  IF packet.status = "250"
  THEN emitSuccess([s EXCEPT !.capabilities = parseCapabilities(@, packet.data),
                             !.connected = TRUE], pr, packet, react, full)
  ELSE emitError(s, pr, packet, react, full)

ehloCallback(s, pr, packet, react, full) ==
  IF packet.status = "250"
  THEN emitSuccess([s EXCEPT !.capabilities = parseCapabilities(@, packet.data),
                             !.connected = TRUE], pr, packet, react, full)
  ELSE emitError(s, pr, packet, react, full)

\* Variant of mailCallback that forgets the handshake when MAIL is refused.
mailCallback_ResetsSession(s, pr, packet, react, full) ==
  IF packet.status = "250"
  THEN emitSuccess(s, pr, packet, react, full)
  ELSE emitError([s EXCEPT !.capabilities = NoCapabilities, !.connected = FALSE],
                 pr, packet, react, full)

mailCallback(s, pr, packet, react, full) ==
  IF packet.status = "250"
  THEN emitSuccess(s, pr, packet, react, full)
  ELSE emitError(s, pr, packet, react, full)

rcptCallback(s, pr, packet, react, full) ==
  IF packet.status = "250"
  THEN emitSuccess(s, pr, packet, react, full)
  ELSE emitError(s, pr, packet, react, full)

\* Variant of beginDataCallback that takes any reply for the go-ahead.
beginDataCallback_AnyStatus(s, pr, packet, react, full) ==
  emitSuccess(s, pr, NoPacket, react, full)

beginDataCallback(s, pr, packet, react, full) ==
  IF packet.status = "354"
  THEN emitSuccess(s, pr, NoPacket, react, full)
  ELSE emitError(s, pr, packet, react, full)

endDataCallback(s, pr, packet, react, full) ==
  IF packet.status = "250"
  THEN emitSuccess(s, pr, NoPacket, react, full)
  ELSE emitError(s, pr, packet, react, full)

\* socket.end()
end(s) ==
  [s EXCEPT !.ended = @ \cup {s.socket},
            !.event.ended = Append(@, s.socket)]

\* Variant of quitCallback that ends the socket whatever the reply.
quitCallback_AlwaysEnds(s, pr, packet, react, full) ==
  IF packet.status = "221"
  THEN emitSuccess(end(s), pr, NoPacket, react, full)
  ELSE emitError(end(s), pr, NoPacket, react, full)

quitCallback(s, pr, packet, react, full) ==
  IF packet.status = "221"
  THEN emitSuccess(end(s), pr, NoPacket, react, full)
  ELSE emitError(s, pr, NoPacket, react, full)

\* The callbacks of the promise of send: those of the operation that
\* called send, or those of the caller that called send itself; a send that
\* did not return has none.
sendCallback(s, pr, packet, react, full) ==
  CASE pr.op = "send" ->
         IF pr.top THEN emitSuccess(s, pr, packet, react, full) ELSE s
    [] pr.op = "helo" -> heloCallback(s, pr, packet, react, full)
    [] pr.op = "ehlo" -> ehloCallback(s, pr, packet, react, full)
    [] pr.op = "mail" -> mailCallback(s, pr, packet, react, full)
    [] pr.op = "rcpt" -> rcptCallback(s, pr, packet, react, full)
    [] pr.op = "beginData" -> beginDataCallback(s, pr, packet, react, full)
    [] pr.op = "endData" -> endDataCallback(s, pr, packet, react, full)
    [] pr.op = "quit" -> quitCallback(s, pr, packet, react, full)

-----------------------------------------------------------------------------
\* The "packet" listeners.

\* Variant of sendListener that never removes itself from the packet handler.
sendListener_KeepsListener(s, l, packet, react, full) ==
  LET s2 == sendCallback(LogTo(s, l.pr.call, R(packet)), l.pr, packet, react, full)
  IN [s2 EXCEPT !.waiting = FALSE]

\* Variant of sendListener that removes itself only after the callbacks ran.
sendListener_RemovesLast(s, l, packet, react, full) ==
  LET s2 == sendCallback(LogTo(s, l.pr.call, R(packet)), l.pr, packet, react, full)
  IN [s2 EXCEPT !.waiting = FALSE, !.listeners = Remove(@, l)]

\* The listener send registers: it removes itself, fires send's promise with
\* the packet, and only then clears waiting.
sendListener(s, l, packet, react, full) ==
  LET s1 == [s EXCEPT !.listeners = Remove(@, l)]
  IN Strict(LAMBDA s2 : IF s2.event.thrown THEN s2 ELSE [s2 EXCEPT !.waiting = FALSE],
            sendCallback(LogTo(s1, l.pr.call, R(packet)), l.pr, packet, react, full))

\* The listener get registers: it removes itself, calls the caller's callback
\* with the packet, and only then clears waiting.
getListener(s, l, packet, react, full) ==
  LET s1 == [s EXCEPT !.listeners = Remove(@, l)]
      s2 == callerCallback(Fire(LogTo(s1, l.pr.call, R(packet)), l.pr, "success", packet),
                           react, full)
  IN [s2 EXCEPT !.waiting = FALSE]

\* The listener connect registers: it removes itself and, on a 220 greeting,
\* starts the handshake.
greetingListener(s, l, packet, react, full) ==
  LET s1 == LogTo([s EXCEPT !.listeners = Remove(@, l)], l.pr.call, R(packet))
  IN IF packet.status = "220"
     THEN LET s2 == [s1 EXCEPT !.esmtp = IF TestESMTP(packet.data) THEN TRUE ELSE @,
                               !.connections =
                                  [i \in 1..Len(s1.connections) |->
                                     IF s1.connections[i].pr = l.pr
                                     THEN [s1.connections[i] EXCEPT !.greeting = packet]
                                     ELSE s1.connections[i]]]
          IN handshake(s2, l.pr.call, FALSE)
     ELSE emitError(s1, l.pr, packet, react, full)

\* packetHandler.emit("packet", packet): an operation awaits the next reply
\* packet, the one that arrives after it has registered.  The listeners
\* registered when the packet is emitted are called in order of
\* registration; an exception a listener lets through ends the dispatch.
RECURSIVE emit(_, _, _, _, _)
emit(s, snapshot, packet, react, full) ==
  Strict(LAMBDA v :
           IF snapshot = <<>> \/ v.event.thrown THEN v
           ELSE LET l == Head(snapshot)
                    s0 == [v EXCEPT !.event.fired = Append(@, l)]
                    s1 == CASE l.kind = "greeting" ->
                                 greetingListener(s0, l, packet, react, full)
                            [] l.kind = "send" -> sendListener(s0, l, packet, react, full)
                            [] l.kind = "get" -> getListener(s0, l, packet, react, full)
                IN emit(s1, Tail(snapshot), packet, react, full),
         s)

\* The listeners in ls with the first occurrence of l marked as having run.
RECURSIVE MarkRan(_, _)
MarkRan(ls, l) ==
  IF ls = <<>> THEN <<>>
  ELSE IF Head(ls) = l THEN <<[l EXCEPT !.ran = TRUE]>> \o Tail(ls)
  ELSE <<Head(ls)>> \o MarkRan(Tail(ls), l)

\* The listener sendData adds for 'drain': client.socket.removeListener takes
\* it off the socket the client uses when the listener runs, which is the
\* socket it was added to unless connect replaced it meanwhile; then it fires
\* the promise of sendData.  A listener that was not taken off stays on its
\* socket and has run.
drainListener(s, l, react, full) ==
  Strict(LAMBDA v :
           IF v.socket = l.sock
           THEN emitSuccess([v EXCEPT !.drainListeners = Remove(@, l)],
                            l.pr, NoPacket, react, full)
           ELSE Strict(LAMBDA s2 : [s2 EXCEPT !.drainListeners = MarkRan(@, l)],
                       emitSuccess(v, l.pr, NoPacket, react, full)),
         s)

\* socket.emit('drain'): the listeners registered on the socket when it
\* drains are called in order of registration.
RECURSIVE emitDrain(_, _, _, _)
emitDrain(s, snapshot, react, full) ==
  Strict(LAMBDA v :
           IF snapshot = <<>> \/ v.event.thrown THEN v
           ELSE emitDrain(drainListener(v, Head(snapshot), react, full),
                          Tail(snapshot), react, full),
         s)

-----------------------------------------------------------------------------
\* Actions.

\* new PacketHandler(): nothing buffered, nothing emitted.
NewPacketHandler ==
  [received |-> 0, buffer |-> <<>>, lines |-> <<>>, packets |-> <<>>,
   fragmented |-> FALSE]

\* The state after new Client().
ClientInit ==
  /\ socket = 0
  /\ ended = {}
  /\ errored = {}
  /\ connections = <<>>
  /\ listeners = <<>>
  /\ waiting = FALSE
  /\ esmtp = FALSE
  /\ capabilities = NoCapabilities
  /\ connected = FALSE
  /\ ops = <<>>
  /\ drainListeners = <<>>
  /\ tickQueue = <<>>
  /\ calls = 0
  /\ ncmds = 0
  /\ pkts = 0
  /\ greetings = 0
  /\ unsolicited = 0
  /\ overlaps = 0
  /\ closedCalls = 0
  /\ threw = {}
  /\ event = NewEvent("init", NoPacket)

Init ==
  /\ ClientInit
  /\ replyLines = <<>>
  /\ packetHandler = NewPacketHandler

\* The caller invokes an operation from the top of the event loop.
Call(verb, full) ==
  \E throws \in BOOLEAN :
    /\ throws => ~Usable(State) /\ socket # 0 /\ verb \notin Socketless
    /\ SetState(invoke(Begin(State, "call", NoPacket, throws, FALSE), verb, full))

Connect ==
  /\ CanInvoke(State, "connect")
  /\ Call("connect", FALSE)

Get ==
  /\ CanInvoke(State, "get")
  /\ Call("get", FALSE)

Helo ==
  /\ CanInvoke(State, "helo")
  /\ Call("helo", FALSE)

Ehlo ==
  /\ CanInvoke(State, "ehlo")
  /\ Call("ehlo", FALSE)

Mail ==
  /\ CanInvoke(State, "mail")
  /\ Call("mail", FALSE)

Rcpt ==
  /\ CanInvoke(State, "rcpt")
  /\ Call("rcpt", FALSE)

BeginData ==
  /\ CanInvoke(State, "beginData")
  /\ Call("beginData", FALSE)

SendData ==
  /\ CanInvoke(State, "sendData")
  /\ \E full \in BOOLEAN : Call("sendData", full)

EndData ==
  /\ CanInvoke(State, "endData")
  /\ Call("endData", FALSE)

Data ==
  /\ CanInvoke(State, "data")
  /\ Call("data", FALSE)

Quit ==
  /\ CanInvoke(State, "quit")
  /\ Call("quit", FALSE)

\* The caller writes a line of its own with writeline: no listener is
\* registered and waiting is not set.
Writeline ==
  /\ CanInvoke(State, "writeline")
  /\ Call("writeline", FALSE)

\* The caller hands lines of its own to parseCapabilities, the function the
\* callbacks of helo and ehlo store the capabilities with.
ParseCapabilities ==
  /\ CanInvoke(State, "parseCapabilities")
  /\ Call("parseCapabilities", FALSE)

\* The caller calls handshake(): helo() or ehlo(), as the greeting decided.
Handshake ==
  /\ CanInvoke(State, "handshake")
  /\ Call("handshake", FALSE)

\* The caller sends a line of its own with send and adds its callback to
\* the promise send returns.
Send ==
  /\ CanInvoke(State, "send")
  /\ Call("send", FALSE)

\* A promise of connect that has fired can be fired again by the listeners
\* ls: by the greeting listener, or by the callback of the handshake.
Refires(s, ls) ==
  \E i \in 1..Len(ls) :
    \/ /\ ls[i].kind = "greeting" \/ ls[i].pr.op \in {"helo", "ehlo"}
       /\ HasFired(s, Promise(ls[i].pr.call, "connect", TRUE))
       /\ ls[i].kind = "greeting" \/ ~ls[i].pr.top
    \/ /\ ls[i].pr.op = "endData" /\ ~ls[i].pr.top
       /\ \/ HasFired(s, Parent(ls[i].pr, "data"))
          \/ \E j \in 1..Len(ls) : j # i /\ ls[j].pr = ls[i].pr

\* Choices that change nothing are left out: the caller reacts only where a
\* promise fires and it may still invoke an operation, full is read only
\* where sendData writes, throws only where a write can meet a socket that
\* is not open, and again only where a promise that has fired is fired.
Choice(react, full, fires, throws, again, refires) ==
  /\ react # "none" => fires /\ calls < MaxOps
  /\ full => react = "sendData" \/ \E i \in 1..Len(ops) : ops[i].op = "data"
  /\ throws => /\ socket # 0
               /\ \/ socket \in ended \cup errored
                  \/ \E i \in 1..Len(listeners) : listeners[i].pr.op = "quit"
  /\ again => refires

\* The sockets that can still deliver data or fail.
Live == {sock \in 1..socket : sock \notin errored}

\* Variant of Receive in which the packet is dispatched also to the listeners
\* that were registered while it was being dispatched.
Receive_Redelivers ==
  /\ pkts < MaxPkts
  /\ Live # {}
  /\ \E packet \in Packets, react \in Reacts, full, throws, again \in BOOLEAN :
       /\ Choice(react, full, listeners # <<>>, throws, again, Refires(State, listeners))
       /\ LET s == [Begin(State, "packet", packet, throws, again) EXCEPT
                      !.pkts = @ + 1,
                      !.greetings = IF \E i \in 1..Len(listeners) :
                                         listeners[i].kind = "greeting"
                                    THEN @ + 1 ELSE @,
                      !.unsolicited = IF listeners = <<>> THEN @ + 1 ELSE @]
              s1 == emit(s, listeners, packet, react, full)
          IN SetState(emit(s1, SelectSeq(s1.listeners, LAMBDA l : l.wroteAt = s1.pkts),
                           packet, react, full))

\* The packet handler has completed a reply and emits the packet to the
\* listeners registered at that moment.
emitPacket(s, packet, react, full) ==
  Strict(LAMBDA v :
           emit([v EXCEPT !.pkts = @ + 1,
                          !.greetings = IF \E i \in 1..Len(v.listeners) :
                                             v.listeners[i].kind = "greeting"
                                        THEN @ + 1 ELSE @,
                          !.unsolicited = IF v.listeners = <<>> THEN @ + 1 ELSE @],
                v.listeners, packet, react, full),
         s)

\* A socket delivers bytes that complete a reply: the packet handler emits
\* the packet.
Receive ==
  /\ pkts < MaxPkts
  /\ Live # {}
  /\ \E packet \in Packets, react \in Reacts, full, throws, again \in BOOLEAN :
       /\ Choice(react, full, listeners # <<>>, throws, again, Refires(State, listeners))
       /\ SetState(emitPacket(Begin(State, "packet", packet, throws, again),
                              packet, react, full))

\* A process.nextTick callback of sendData runs.
Tick ==
  /\ tickQueue # <<>>
  /\ \E react \in Reacts, full, throws \in BOOLEAN :
       /\ Choice(react, full, TRUE, throws, FALSE, FALSE)
       /\ SetState(emitSuccess([Begin(State, "tick", NoPacket, throws, FALSE) EXCEPT
                                  !.tickQueue = Tail(@)],
                               Head(tickQueue), NoPacket, react, full))

\* The sockets whose write buffer is full: a write to them reported so and
\* they have not drained since.  Only sendData reads what socket.write
\* reports, and it adds a 'drain' listener then; the listener has run when
\* the socket has drained.
Congested(s) ==
  {s.drainListeners[i].sock : i \in {j \in 1..Len(s.drainListeners) :
                                       ~s.drainListeners[j].ran}}

\* A socket whose write buffer was full emits 'drain': the listeners
\* sendData added to it are called.  A socket drains once for the writes
\* that filled it, and the client writes to no socket but client.socket: a
\* listener that stayed on a socket the client no longer uses does not run
\* again.
Drain ==
  \E sock \in Live \cap Congested(State), react \in Reacts, full, throws \in BOOLEAN :
    /\ Choice(react, full, TRUE, throws, FALSE, FALSE)
    /\ SetState(emitDrain(Begin(State, "drain", NoPacket, throws, FALSE),
                          SelectSeq(drainListeners, LAMBDA l : l.sock = sock),
                          react, full))

\* A socket emits 'error': the listener connect added for it fires the
\* promise of that connect with the error.
SocketError ==
  \E sock \in Live, react \in Reacts, full, throws, again \in BOOLEAN :
    /\ Choice(react, full, again \/ ~HasFired(State, connections[sock].pr),
              FALSE, again, HasFired(State, connections[sock].pr))
    /\ throws => react \notin {"none", "connect"}
    /\ SetState(emitError([Begin(State, "error", TransportError, throws, again)
                            EXCEPT !.errored = @ \cup {sock}],
                          connections[sock].pr, TransportError, react, full))

Next ==
  \/ Connect \/ Get \/ Helo \/ Ehlo \/ Mail \/ Rcpt \/ BeginData \/ SendData
  \/ EndData \/ Data \/ Quit \/ Handshake \/ Send \/ Writeline \/ ParseCapabilities
  \/ Receive \/ Tick \/ Drain \/ SocketError

Spec == Init /\ [][Next]_vars

-----------------------------------------------------------------------------
\* The reply assembler: this.packetHandler takes the chunks the socket
\* delivers and emits the complete reply packets, which the listeners of the
\* session driver receive in the same turn.  Bytes are sequences of
\* characters.

\* The reply lines a server sends: three characters of status, then "-" and
\* text on a line that continues the reply, " " and text or nothing on its
\* final line.
\* A line can be malformed: its status is not a number, or it follows a line
\* of another status that it continues.
Statuses == {<<"2", "2", "0">>, <<"2", "5", "0">>}
ReplyLines ==
  {[status |-> <<"2", "2", "0">>, sep |-> " ", text |-> <<"a">>],
   [status |-> <<"2", "5", "0">>, sep |-> "-", text |-> <<"a">>],
   [status |-> <<"2", "5", "0">>, sep |-> " ", text |-> <<"a">>],
   [status |-> <<"2", "5", "0">>, sep |-> "", text |-> <<>>],
   [status |-> <<"o", "o", "p">>, sep |-> " ", text |-> <<"a">>]}

\* A line on the wire, ended by CRLF.
Bytes(l) ==
  l.status \o (IF l.sep = "" THEN <<>> ELSE <<l.sep>>) \o l.text \o <<"\r", "\n">>

RECURSIVE Wire(_)
Wire(ls) == IF ls = <<>> THEN <<>> ELSE Bytes(Head(ls)) \o Wire(Tail(ls))

\* The characters as a string.
RECURSIVE Str(_)
Str(chars) == IF chars = <<>> THEN "" ELSE Head(chars) \o Str(Tail(chars))

\* The packet as the listeners of the session driver read it: the status a
\* string, every line the list of its words (the texts above have one).
DriverPacket(p) ==
  [status |-> Str(p.status), data |-> [i \in 1..Len(p.lines) |-> <<Str(p.lines[i])>>]]

\* A complete line: its text joins the lines of the reply under assembly; a
\* line whose separator is not "-" completes the reply, and the packet is
\* emitted.
replyLine(h, ln) ==
  LET lines == Append(h.lines, SubSeq(ln, 5, Len(ln)))
  IN IF Len(ln) >= 4 /\ ln[4] = "-"
     THEN [h EXCEPT !.lines = lines]
     ELSE [h EXCEPT !.lines = <<>>,
                    !.packets = Append(@, [status |-> SubSeq(ln, 1, 3), lines |-> lines])]

\* The position of the first CRLF in rest, 0 when there is none.
CRLFAt(rest) ==
  LET at == {i \in 1..(Len(rest) - 1) : rest[i] = "\r" /\ rest[i + 1] = "\n"}
  IN IF at = {} THEN 0 ELSE CHOOSE i \in at : \A j \in at : i <= j

\* The lines that are complete are taken in order; the unterminated rest is
\* kept for the next chunk.
RECURSIVE frame(_, _)
frame(h, rest) ==
  LET i == CRLFAt(rest)
  IN IF i = 0 THEN [h EXCEPT !.buffer = rest]
     ELSE frame(replyLine(h, SubSeq(rest, 1, i - 1)), SubSeq(rest, i + 2, Len(rest)))

\* packetHandler.receive(data): the chunk follows what was kept of the chunks
\* before it.
receive(h, chunk) ==
  LET r == frame(h, h.buffer \o chunk)
  IN [r EXCEPT !.fragmented = @ \/ r.buffer # <<>>]

\* The packets the packet handler completes while it receives a chunk are
\* emitted in order, each to the listeners registered when it is emitted.
RECURSIVE emitPackets(_, _, _, _)
emitPackets(s, packets, react, full) ==
  Strict(LAMBDA v :
           IF packets = <<>> THEN v
           ELSE emitPackets(emitPacket(v, DriverPacket(Head(packets)), react, full),
                            Tail(packets), react, full),
         s)

\* The n bytes that arrive next on the socket.
Chunk(n) ==
  SubSeq(Wire(replyLines), packetHandler.received + 1, packetHandler.received + n)

\* The "data" listener connect adds to the socket, called with chunk, which
\* stands for the n bytes that arrive next: chunk is passed to
\* packetHandler.receive, and the packets it completes reach the "packet"
\* listeners of the client before the listener returns.  None of the reply
\* lines makes the client end its socket, so no write of a listener throws.
dataListener(chunk, n, react, full, again) ==
  LET h == [receive(packetHandler, chunk) EXCEPT !.received = @ + n]
      emitted == SubSeq(h.packets, Len(packetHandler.packets) + 1, Len(h.packets))
  IN /\ Choice(react, full, listeners # <<>>, FALSE, again, Refires(State, listeners))
     /\ react # "none" \/ full \/ again => emitted # <<>>
     /\ packetHandler' = h
     /\ SetClient(emitPackets(Begin(State, "data", NoPacket, FALSE, again),
                              emitted, react, full))
     /\ UNCHANGED replyLines

\* data.replace(/[\r\n]/gi, ""): the chunk as the debug output prints it,
\* without its CR and LF characters.
Stripped(chunk) == SelectSeq(chunk, LAMBDA c : c \notin {"\r", "\n"})

\* Variant of SocketData that hands the packet handler the chunk as the debug
\* output prints it.
SocketData_Stripped ==
  /\ socket \in Live
  /\ \E n \in 0..(Len(Wire(replyLines)) - packetHandler.received),
        react \in Reacts, full, again \in BOOLEAN :
       dataListener(Stripped(Chunk(n)), n, react, full, again)

\* The socket of the client emits "data": a chunk of any length, of the
\* bytes the server has sent, arrives.
SocketData ==
  /\ socket \in Live
  /\ \E n \in 0..(Len(Wire(replyLines)) - packetHandler.received),
        react \in Reacts, full, again \in BOOLEAN :
       dataListener(Chunk(n), n, react, full, again)

\* A new Client, and a server that sends up to MaxLines reply lines, which
\* the transport delivers in chunks of any sizes once the client has
\* connected.
AssemblerInit ==
  /\ ClientInit
  /\ replyLines \in UNION {[1..n -> ReplyLines] : n \in 1..MaxLines}
  /\ packetHandler = NewPacketHandler

\* The caller connects and sends a command, MaxCalls calls in all, while
\* the chunks arrive.
AssemblerConnect == calls < MaxCalls /\ Connect

AssemblerMail == calls < MaxCalls /\ Mail

AssemblerNext == AssemblerConnect \/ AssemblerMail \/ SocketData

AssemblerSpec == AssemblerInit /\ [][AssemblerNext]_vars

-----------------------------------------------------------------------------
\* Properties.

Range(seq) == {seq[i] : i \in 1..Len(seq)}

\* The promises that fired in the latest step, with their outcome.
Settled == Range(event.settled)

\* The listeners of commands that ran in the latest step.
FiredSend == SendListeners(event.fired)

InFlight == SendListeners(listeners)

\* C1.  With a caller that invokes an operation only after the previous one
\* has resolved: a reply packet resolves at most one command; the command it
\* resolves was written after the previous packet and before this one, is
\* the k-th command when the packet is the k-th one that is neither a
\* greeting nor emitted while nothing awaited a reply, has its operation's
\* promise fired exactly once in that step, and is not resolved again (its
\* listener is gone); the commands resolved so far are as many as such
\* packets.
C1_NextReplyResolvesCommand ==
  Disciplined =>
    /\ Len(event.fired) <= 1
    /\ \A i \in 1..Len(FiredSend) :
         LET l == FiredSend[i]
         IN /\ event.kind = "packet"
            /\ l.wroteAt = pkts - 1
            /\ l.k = pkts - greetings - unsolicited
            /\ Cardinality({j \in 1..Len(event.settled) : event.settled[j].pr = l.pr}) = 1
            /\ \A j \in 1..Len(listeners) : listeners[j].k # l.k
    /\ ncmds - Len(InFlight) = pkts - greetings - unsolicited

\* The case of C1: the second or a later command is resolved by a reply, and the
\* caller's callback has written the next command in the same step.
C1_Witness ==
  /\ Disciplined
  /\ Len(FiredSend) = 1
  /\ FiredSend[1].k >= 2
  /\ Len(event.sent) = 1
  /\ Len(InFlight) = 1

\* In every reachable state, whatever the caller does, at most one listener
\* of a command is registered.
C2_AtMostOneInFlight == Len(InFlight) <= 1

\* C2.  At most one command is in flight: with a caller that invokes an
\* operation only after the previous one has resolved, no command is sent
\* while another is in flight, and at most one listener of a command is
\* registered.
C2_AtMostOneInFlightIfDisciplined ==
  Disciplined =>
    /\ Len(InFlight) <= 1
    /\ \A i \in 1..Len(event.sent) : event.sent[i].inflight = 0

\* The case of C2: a reply resolves a command and the callback sends the next one.
C2_Witness ==
  /\ Disciplined
  /\ event.kind = "packet"
  /\ Len(FiredSend) = 1
  /\ Len(event.sent) = 1
  /\ event.sent[1].k = FiredSend[1].k + 1

\* C3.  waiting is true exactly when one command is in flight, also after a
\* completion callback has sent the next command.
C3_WaitingIffOneInFlight ==
  Disciplined => (waiting <=> Len(InFlight) = 1)

\* The logs of the connect operations: the pending ones and the ones whose
\* promise fired in the latest step.
ConnectLogs ==
  {ops[i].log : i \in {j \in 1..Len(ops) : ops[j].op = "connect"}}
    \cup {st.log : st \in {x \in Settled : x.pr.op = "connect"}}

\* The HELO/EHLO operations that succeeded in the latest step.
Handshaken == {st \in Settled : st.pr.op \in {"helo", "ehlo"} /\ st.outcome = "success"}

\* C4.  Once the greeting and the reply to the handshake have been received,
\* connect has resolved: no connect is pending with both replies in its log;
\* it succeeds exactly on a 220 greeting followed by a 250 reply, and a
\* greeting other than 220 rejects it with no HELO/EHLO line written.
C4_ConnectResolves ==
  Disciplined =>
    /\ \A i \in 1..Len(ops) :
         ops[i].op = "connect" =>
           Len(SelectSeq(ops[i].log, LAMBDA e : e.t = "reply")) < 2
    /\ \A st \in Settled :
         st.pr.op = "connect" /\ event.kind = "packet" /\ ~st.again =>
           /\ st.outcome = "success" <=>
                /\ Len(st.log) = 3
                /\ st.log[1].packet.status = "220"
                /\ st.log[3].packet.status = "250"
           /\ st.log[1].packet.status # "220" =>
                st.outcome = "error" /\ Len(st.log) = 1

\* C5.  The handshake line connect writes after a 220 greeting is EHLO when
\* the greeting of that connection matches /ESMTP/i, and HELO otherwise.
C5_HandshakeFollowsGreeting ==
  Disciplined =>
    \A log \in ConnectLogs :
      Len(log) >= 2 =>
        log[2] = W((IF TestESMTP(log[1].packet.data) THEN "EHLO" ELSE "HELO")
                   \o " " \o Host \o "\r\n")

\* The keywords a HELO/EHLO reply advertises: the first token of every line
\* but the first.
Keywords(lines) == {lines[i][1] : i \in 2..Len(lines)}

\* C6.  After a successful handshake the capabilities are exactly the
\* keywords of its reply.
C6_CapabilitiesReplaced ==
  Disciplined =>
    \A st \in Handshaken : DOMAIN capabilities = Keywords(st.value.data)

\* C7.  After a successful handshake every keyword of the reply maps to true
\* when its line has no further token, and else to the rest of the line
\* after the keyword.
C7_CapabilityValues ==
  Disciplined =>
    \A st \in Handshaken :
      LET lines == st.value.data
      IN \A i \in 2..Len(lines) :
           (\A j \in (i + 1)..Len(lines) : lines[j][1] # lines[i][1]) =>
             capabilities[lines[i][1]] =
               IF Len(lines[i]) > 1 THEN CapText(Join(Tail(lines[i]), " ")) ELSE CapTrue

IsReply(e, status) == e.t = "reply" /\ e.packet.status = status
IsOtherReply(e, status) == e.t = "reply" /\ e.packet.status # status

\* What a data operation has written and received when it resolves.
DataComplete(log) ==
  /\ Len(log) = 5
  /\ log[1] = W("DATA\r\n")
  /\ IsReply(log[2], "354")
  /\ log[3] = W(Body)
  /\ log[4] = W("\r\n.\r\n")
  /\ log[5].t = "reply"

\* C8.  A data operation writes DATA, the payload and the terminator in this
\* order, the payload only after a 354 reply; it succeeds only after 354 and
\* 250; when the reply to DATA is not 354 it fails with that reply and has
\* written nothing else; when the reply to the terminator is not 250 it fails
\* with that reply; and once it has resolved nothing is left that could
\* resolve it again: no listener of its commands, no tick callback and no
\* 'drain' listener that has not run.  (Where the socket was ended or has
\* failed meanwhile, the write of the payload can throw, and the operation
\* stays pending after the 354 reply.)
C8_DataSequence ==
  /\ \A i \in 1..Len(ops) :
       ops[i].op = "data" =>
         LET log == ops[i].log
         IN \/ log = <<W("DATA\r\n")>>
            \/ /\ Len(log) = 2 /\ log[1] = W("DATA\r\n") /\ IsReply(log[2], "354")
               /\ ended \cup errored # {}
            \/ /\ Len(log) = 3 /\ log[1] = W("DATA\r\n") /\ IsReply(log[2], "354")
               /\ log[3] = W(Body)
            \/ /\ Len(log) = 4 /\ log[1] = W("DATA\r\n") /\ IsReply(log[2], "354")
               /\ log[3] = W(Body) /\ log[4] = W("\r\n.\r\n")
  /\ \A st \in Settled :
       st.pr.op = "data" =>
         /\ st.outcome = "success" => DataComplete(st.log) /\ IsReply(st.log[5], "250")
         /\ st.outcome = "error" =>
              \/ /\ Len(st.log) = 2 /\ st.log[1] = W("DATA\r\n")
                 /\ IsOtherReply(st.log[2], "354") /\ st.value = st.log[2].packet
              \/ /\ DataComplete(st.log) /\ IsOtherReply(st.log[5], "250")
                 /\ st.value = st.log[5].packet
         /\ Cardinality({j \in 1..Len(event.settled) : event.settled[j].pr = st.pr}) = 1
         /\ \A j \in 1..Len(listeners) :
              listeners[j].pr.top \/ listeners[j].pr.call # st.pr.call
         /\ \A j \in 1..Len(tickQueue) : tickQueue[j].call # st.pr.call
         /\ \A j \in 1..Len(drainListeners) :
              drainListeners[j].pr.call = st.pr.call => drainListeners[j].ran

\* C8 witness: a data operation succeeded.
C8_Witness ==
  \E st \in Settled : st.pr.op = "data" /\ st.outcome = "success"

\* C8 witness of the failing case: a data operation failed at DATA.
C8_WitnessRejected ==
  \E st \in Settled : st.pr.op = "data" /\ st.outcome = "error" /\ Len(st.log) = 2

FiredQuit == SelectSeq(event.fired, LAMBDA l : l.kind = "send" /\ l.pr.op = "quit")

\* In the latest step: a quit operation succeeded exactly when the reply was
\* 221, and socket.end() was called once per QUIT answered by 221 and not
\* otherwise.
C9_Step ==
  /\ \A st \in Settled :
       st.pr.op = "quit" =>
         /\ event.kind = "packet"
         /\ st.outcome = "success" <=> event.packet.status = "221"
         /\ st.outcome = "error" <=> event.packet.status # "221"
  /\ Len(event.ended) = IF event.kind = "packet" /\ event.packet.status = "221"
                        THEN Len(FiredQuit) ELSE 0

\* A socket is ended only by a step that calls socket.end().
C9_Frame == ended' = ended \cup Range(event'.ended)

\* C9.  quit ends the socket if and only if the reply to QUIT is 221: a
\* socket becomes ended only in a step in which a QUIT is answered by 221,
\* and on another status nothing is ended and quit fails.
C9_QuitEndsOn221 == [](C9_Step) /\ [][C9_Frame]_vars

\* C9 witness: a QUIT was answered by 221 and the socket is ended.
C9_Witness ==
  /\ \E st \in Settled : st.pr.op = "quit" /\ st.outcome = "success"
  /\ socket \in ended

\* C9 witness of the other case: a QUIT was answered by another status.
C9_WitnessRefused ==
  /\ \E st \in Settled : st.pr.op = "quit" /\ st.outcome = "error"
  /\ ended = {}

\* C10.  An operation that fails on a reply fails with that reply packet.
C10_FailureCarriesPacket ==
  Disciplined =>
    \A st \in Settled :
      st.outcome = "error" /\ event.kind = "packet" => st.value = event.packet

\* C11.  A transport error is surfaced to the operation that is pending: in
\* the step in which the socket in use emits 'error' after the handshake has
\* succeeded, no mail, rcpt, data or quit operation of a caller that kept the
\* discipline stays pending.
C11_ErrorFailsPending ==
  (Disciplined /\ connected /\ event.kind = "error" /\ socket \in errored) =>
    \A i \in 1..Len(ops) : ops[i].op \notin {"mail", "rcpt", "data", "quit"}

\* The listeners of HELO and EHLO commands that the latest step ran.
FiredHandshake ==
  SelectSeq(event.fired, LAMBDA l : l.kind = "send" /\ l.pr.op \in {"helo", "ehlo"})

\* connected becomes true only in a step that delivers a 250 reply to the
\* listener of a HELO or EHLO command.
C12_Step ==
  (connected' /\ ~connected) =>
    /\ event'.kind = "packet"
    /\ event'.packet.status = "250"
    /\ Len(SelectSeq(event'.fired,
                     LAMBDA l : l.kind = "send" /\ l.pr.op \in {"helo", "ehlo"})) >= 1

\* C12.  connected is true only if a HELO or EHLO command received a reply
\* with status 250: it is false at first and becomes true only in the step
\* that delivers such a reply; a greeting, or a handshake reply with another
\* status, does not set it.
C12_ConnectedOnlyAfter250 == ~connected /\ [][C12_Step]_vars

\* C12 witness: a 250 reply to HELO or EHLO has just set connected.
C12_Witness ==
  /\ connected
  /\ event.kind = "packet" /\ event.packet.status = "250"
  /\ Len(FiredHandshake) = 1

\* C12 witness of the other case: a HELO or EHLO was answered by another
\* status and connected is still false.
C12_WitnessRefused ==
  /\ ~connected
  /\ event.kind = "packet" /\ event.packet.status # "250"
  /\ Len(FiredHandshake) = 1

\* The listeners of commands other than HELO and EHLO that the latest step
\* ran.
FiredOther ==
  SelectSeq(event.fired,
            LAMBDA l : l.kind = "get" \/ (l.kind = "send" /\ l.pr.op \notin {"helo", "ehlo"}))

\* The step is the caller's own call of the helper parseCapabilities, which
\* is no operation of the session: it stores the capabilities of the lines it
\* is handed and touches nothing else.
C13_HelperCall ==
  /\ event'.kind = "call" /\ event'.called = <<"parseCapabilities">>
  /\ capabilities' = parseCapabilities(capabilities, CapabilityLines)
  /\ esmtp' = esmtp /\ connected' = connected

\* A step of the session changes esmtp only by delivering a 220 greeting to
\* the listener of connect, and changes capabilities or connected only by
\* delivering a 250 reply to the listener of a HELO or EHLO command.
C13_Step ==
  \/ C13_HelperCall
  \/ /\ esmtp' # esmtp =>
          /\ event'.kind = "packet" /\ event'.packet.status = "220"
          /\ \E i \in 1..Len(event'.fired) : event'.fired[i].kind = "greeting"
     /\ (capabilities' # capabilities \/ connected' # connected) =>
          /\ event'.kind = "packet" /\ event'.packet.status = "250"
          /\ \E i \in 1..Len(event'.fired) :
               /\ event'.fired[i].kind = "send"
               /\ event'.fired[i].pr.op \in {"helo", "ehlo"}

\* C13.  In the session the operations drive, esmtp, capabilities and
\* connected are changed only by the greeting handler of connect and by a
\* HELO or EHLO reply with status 250: every step of an operation (a call of
\* connect, handshake, helo, ehlo, mail, rcpt, beginData, sendData, endData,
\* data, quit, get, send or writeline, a reply to mail, rcpt, beginData,
\* endData or quit whatever its status, the drain or tick that resolves
\* sendData, a transport error, a HELO or EHLO reply with another status)
\* leaves them as they were.  The one other step there is, the caller's own
\* call of the helper parseCapabilities, is not a step of an operation and
\* is outside the statement.
C13_SessionFieldsFrame == [][C13_Step]_vars

\* C13 witness: after a successful EHLO of an ESMTP server, a MAIL, RCPT,
\* DATA or QUIT command was answered by a failure status, and the three
\* fields still hold what the handshake left.
C13_Witness ==
  /\ event.kind = "packet" /\ event.packet.status \notin {"220", "250"}
  /\ Len(FiredOther) = 1 /\ Len(event.fired) = 1
  /\ esmtp /\ connected /\ "PIPELINING" \in DOMAIN capabilities

\* C13 witness of the other case: a HELO or EHLO was refused after an earlier
\* handshake had succeeded, and capabilities and connected are kept.
C13_WitnessRefused ==
  /\ event.kind = "packet" /\ event.packet.status # "250"
  /\ Len(FiredHandshake) = 1
  /\ connected /\ capabilities # NoCapabilities

\* The promises of sendData that the latest step fired.
SettledSendData == {st \in Settled : st.pr.op = "sendData"}

\* In the latest step: a sendData that returned has fired nothing; it waits
\* on a 'drain' listener of its socket when the write buffer was full and on
\* the tick queue otherwise.  A promise of sendData fires only in a drain or
\* tick step, once, and nothing is left registered that would fire it again.
C14_State ==
  /\ \A i \in 1..Len(event.queued) :
       LET q == event.queued[i]
       IN /\ \A st \in Settled : st.pr # q.pr
          /\ q.full <=> \E j \in 1..Len(drainListeners) : drainListeners[j].pr = q.pr
          /\ ~q.full <=> \E j \in 1..Len(tickQueue) : tickQueue[j] = q.pr
  /\ \A st \in SettledSendData :
       /\ event.kind \in {"drain", "tick"}
       /\ st.outcome = "success"
       /\ Cardinality({j \in 1..Len(event.settled) : event.settled[j].pr = st.pr}) = 1
       /\ \A j \in 1..Len(drainListeners) : drainListeners[j].pr # st.pr
       /\ \A j \in 1..Len(tickQueue) : tickQueue[j] # st.pr

\* The promise a drain step fires is that of a 'drain' listener registered
\* before the step; the promise a tick step fires is the one at the head of
\* the tick queue.
C14_Step ==
  \A j \in 1..Len(event'.settled) :
    event'.settled[j].pr.op = "sendData" =>
      \/ /\ event'.kind = "drain"
         /\ \E i \in 1..Len(drainListeners) : drainListeners[i].pr = event'.settled[j].pr
      \/ /\ event'.kind = "tick"
         /\ tickQueue # <<>> /\ Head(tickQueue) = event'.settled[j].pr

\* C14.  sendData never resolves inside the call; when the transport
\* reported its buffer full the operation resolves in a later drain step of
\* that socket, once, its listener removed; when the write was accepted it
\* resolves in a later tick step.  Violated: the listener takes itself off
\* client.socket, which is another socket when connect was called
\* meanwhile; it then stays registered on the socket that drained.
C14_SendDataResolvesLater == [](C14_State) /\ [][C14_Step]_vars

\* C14 witness: the socket drained and the sendData that found the buffer
\* full has resolved.
C14_Witness ==
  /\ event.kind = "drain"
  /\ \E st \in SettledSendData : st.pr.top

\* C14 witness of the other case: the next tick resolved a sendData whose
\* write was accepted.
C14_WitnessTick ==
  /\ event.kind = "tick"
  /\ \E st \in SettledSendData : st.pr.top

\* C14 witness of the call: sendData returned with the buffer full and its
\* operation is pending.
C14_WitnessFull ==
  /\ event.kind = "call"
  /\ Len(event.queued) = 1 /\ event.queued[1].full /\ event.queued[1].pr.top
  /\ \E i \in 1..Len(ops) : ops[i].call = event.queued[1].pr.call

\* The line the claim gives for a mail or rcpt operation with the address of
\* the model.
ExpectedLine(op) ==
  IF op = "mail" THEN "MAIL FROM: <user@example.com>\r\n"
  ELSE "RCPT TO: <user@example.com>\r\n"

\* C15.  mail(address) and rcpt(address) write exactly one line, MAIL FROM:
\* <address> CRLF and RCPT TO: <address> CRLF; the operation is resolved by
\* the next reply, with success if and only if its status is 250 and
\* otherwise with a failure carrying that reply.  A pending mail or rcpt has
\* written that one line and nothing else.
C15_MailRcpt ==
  /\ \A i \in 1..Len(ops) :
       ops[i].op \in {"mail", "rcpt"} => ops[i].log = <<W(ExpectedLine(ops[i].op))>>
  /\ \A st \in Settled :
       st.pr.op \in {"mail", "rcpt"} =>
         /\ event.kind = "packet"
         /\ st.log = <<W(ExpectedLine(st.pr.op)), R(event.packet)>>
         /\ st.outcome = "success" <=> event.packet.status = "250"
         /\ st.outcome = "error" <=> event.packet.status # "250"
         /\ st.value = event.packet

\* C15 witness: a mail operation succeeded on a 250 reply.
C15_Witness ==
  \E st \in Settled : st.pr.op = "mail" /\ st.outcome = "success"

\* C15 witness of the other case: a rcpt operation failed on another status.
C15_WitnessRefused ==
  \E st \in Settled : st.pr.op = "rcpt" /\ st.outcome = "error" /\ st.value.status = "550"

\* The packets a sequence of whole reply lines makes: the texts of the lines
\* up to a final line form one packet; lines after the last final line make
\* none.
RECURSIVE Assemble(_, _)
Assemble(ls, texts) ==
  IF ls = <<>> THEN <<>>
  ELSE IF Head(ls).sep = "-" THEN Assemble(Tail(ls), Append(texts, Head(ls).text))
  ELSE <<[status |-> Head(ls).status, lines |-> Append(texts, Head(ls).text)]>>
         \o Assemble(Tail(ls), <<>>)

\* The number of lines of ls that the first n bytes on the wire contain
\* whole.
RECURSIVE CompleteLines(_, _)
CompleteLines(ls, n) ==
  IF ls = <<>> \/ Len(Bytes(Head(ls))) > n THEN 0
  ELSE 1 + CompleteLines(Tail(ls), n - Len(Bytes(Head(ls))))

\* The packets the session driver is to observe once received bytes have
\* arrived, as its listeners read them.
Observable(received) ==
  LET ps == Assemble(SubSeq(replyLines, 1, CompleteLines(replyLines, received)), <<>>)
  IN [i \in 1..Len(ps) |-> DriverPacket(ps[i])]

\* The replies in the log of an operation, in order.
Replies(log) ==
  LET rs == SelectSeq(log, LAMBDA e : e.t = "reply")
  IN [i \in 1..Len(rs) |-> rs[i].packet]

\* The elements of a are elements of b, in the order of b.
RECURSIVE IsSubSeq(_, _)
IsSubSeq(a, b) ==
  \/ a = <<>>
  \/ /\ b # <<>>
     /\ IF Head(a) = Head(b) THEN IsSubSeq(Tail(a), Tail(b)) ELSE IsSubSeq(a, Tail(b))

\* The packets emitted so far are the packets of the lines that have arrived
\* whole, the session driver was handed each of them, and the replies an
\* operation took are among them, in their order.
C16_State ==
  /\ packetHandler.packets =
       Assemble(SubSeq(replyLines, 1, CompleteLines(replyLines, packetHandler.received)), <<>>)
  /\ pkts = Len(packetHandler.packets)
  /\ \A i \in 1..Len(ops) :
       IsSubSeq(Replies(ops[i].log), Observable(packetHandler.received))
  /\ \A st \in Settled :
       /\ IsSubSeq(Replies(st.log), Observable(packetHandler.received))
       /\ st.value # NoPacket =>
            \E i \in 1..pkts : st.value = Observable(packetHandler.received)[i]

\* A chunk that completes no reply runs no listener and resolves nothing; a
\* chunk that completes replies hands the session driver exactly these, and
\* the reply that resolves an operation is one of them.
C16_Step ==
  event'.kind = "data" =>
    /\ pkts' - pkts = Len(packetHandler'.packets) - Len(packetHandler.packets)
    /\ pkts' = pkts =>
         /\ event'.fired = <<>> /\ event'.settled = <<>> /\ event'.sent = <<>>
         /\ ops' = ops /\ listeners' = listeners
    /\ \A st \in Range(event'.settled) :
         (st.log # <<>> /\ st.log[Len(st.log)].t = "reply") =>
           \E i \in (pkts + 1)..pkts' :
             st.log[Len(st.log)].packet = DriverPacket(packetHandler'.packets[i])

\* C16.  However the bytes of the reply lines are split into chunks, the
\* packets the session driver observes are the packets of the lines that
\* have arrived whole, in the order of the lines, each with its status and
\* lines; a reply whose final line has not arrived resolves no command.
C16_FragmentationInvariance == []C16_State /\ [][C16_Step]_vars

\* C16 witness: all bytes have arrived, some chunk ended inside a line, and
\* connect has resolved on the reply of two lines that followed the greeting.
C16_Witness ==
  /\ event.kind = "data"
  /\ packetHandler.received = Len(Wire(replyLines))
  /\ packetHandler.fragmented
  /\ Len(packetHandler.packets) = 2
  /\ \E st \in Settled :
       /\ st.pr.op = "connect" /\ st.outcome = "success"
       /\ Len(st.log) = 3
       /\ st.log[3].packet.status = "250" /\ Len(st.log[3].packet.data) = 2

\* C16 witness of the partial reply: a command is pending, a continuation
\* line of its reply has arrived whole, the final line has not, and no
\* listener ran.
C16_WitnessPartial ==
  /\ event.kind = "data" /\ event.fired = <<>>
  /\ packetHandler.lines # <<>>
  /\ packetHandler.buffer # <<>>
  /\ \E i \in 1..Len(ops) : ops[i].op = "mail"
  /\ \E i \in 1..Len(listeners) : listeners[i].pr.op = "mail"

\* C16 witness of the malformed lines: a reply whose continuation line had
\* another status, and a reply whose status is not a number, were handed to
\* the session driver.
C16_WitnessMalformed ==
  /\ Len(replyLines) = 3
  /\ replyLines[1].sep = "-" /\ replyLines[2].status # replyLines[1].status
  /\ replyLines[3].status = <<"o", "o", "p">>
  /\ pkts = 2 /\ packetHandler.fragmented

\* C17.  After quit has succeeded and ended the socket, no invocation of a
\* command operation registers a reply listener or writes a command line:
\* no command is sent on a socket that socket.end() was called on, also by
\* a caller that has one operation pending at a time.
C17_NoCommandAfterQuit ==
  overlaps = 0 => \A i \in 1..Len(event.sent) : ~event.sent[i].ended

\* C18.  The promise connect returned fires at most once: no step fires a
\* promise of connect that had fired before.  client.js calls emitError and
\* emitSuccess on it without a guard of its own, so whether this holds is
\* decided by the promise: it holds in the behaviours in which a promise that
\* has fired ignores the call (again is false) and fails in the others.
C18_ConnectSettlesOnce ==
  \A st \in Settled : st.pr.op = "connect" => ~st.again

\* The greeting listeners the latest step ran on a 220 greeting.
FiredGreeting ==
  SelectSeq(event.fired, LAMBDA l : l.kind = "greeting" /\ event.packet.status = "220")

\* C19.  The listener handshake() registers while the greeting is being
\* dispatched does not receive the greeting: no listener of a command runs
\* on the packet during whose dispatch it was registered; after a greeting
\* listener has run on a 220 and written the HELO or EHLO line, the listener
\* of that command is still registered; and, with a caller that has one
\* operation pending at a time, the listener of a handshake command of
\* connect runs on the packet that follows the greeting.  client.js adds the
\* listener during the dispatch (send, called from the greeting listener)
\* and leaves it to the packet handler whether a listener added during a
\* dispatch is called: the formula holds with emit as above and fails with
\* the dispatch of Receive_Redelivers.
C19_GreetingNotRedelivered ==
  /\ \A i \in 1..Len(event.fired) :
       event.fired[i].kind # "greeting" => event.fired[i].wroteAt < pkts
  /\ \A i \in 1..Len(FiredGreeting) :
       ~event.thrown =>
         \E j \in 1..Len(listeners) :
           /\ listeners[j].kind = "send"
           /\ listeners[j].pr = Promise(FiredGreeting[i].pr.call,
                                        listeners[j].pr.op, FALSE)
           /\ listeners[j].pr.op \in {"helo", "ehlo"}
           /\ listeners[j].wroteAt = pkts
  /\ Disciplined =>
       \A i \in 1..Len(FiredHandshake) :
         ~FiredHandshake[i].pr.top => FiredHandshake[i].wroteAt = pkts - 1

\* C19 witness: the greeting was dispatched to the greeting listener alone
\* and the EHLO it sent awaits the next packet.
C19_Witness ==
  /\ Len(FiredGreeting) = 1 /\ Len(event.fired) = 1
  /\ Len(event.sent) = 1
  /\ Len(listeners) = 1 /\ listeners[1].pr.op = "ehlo" /\ listeners[1].wroteAt = pkts

\* C19 witness of the resolution: the packet after the greeting resolved the
\* handshake command of connect.
C19_WitnessResolved ==
  /\ Len(FiredHandshake) = 1 /\ ~FiredHandshake[1].pr.top
  /\ \E st \in Settled : st.pr.op = "connect" /\ st.outcome = "success"

\* In the latest step: a packet that found no listener registered resolved
\* nothing and sent nothing; a listener that ran was registered before the
\* packet was emitted, the reply it logged for its operation is that packet,
\* and it is no longer registered.
C20_State ==
  /\ (event.kind = "packet" /\ event.fired = <<>>) =>
       event.settled = <<>> /\ event.sent = <<>> /\ event.written = <<>>
  /\ \A i \in 1..Len(event.fired) :
       /\ event.kind = "packet"
       /\ event.fired[i].wroteAt < pkts
       /\ \A j \in 1..Len(listeners) : listeners[j] # event.fired[i]
  /\ \A st \in Settled :
       (event.kind = "packet" /\ st.log # <<>> /\ st.log[Len(st.log)].t = "reply") =>
         st.log[Len(st.log)].packet = event.packet

\* A packet emitted while no listener is registered changes nothing of the
\* session but the count of packets: the pending operations, their logs and
\* the listeners are as before, so no later command can receive it.
C20_Step ==
  (event'.kind = "packet" /\ listeners = <<>>) =>
    /\ unsolicited' = unsolicited + 1
    /\ listeners' = <<>>
    /\ ops' = ops
    /\ <<waiting, esmtp, capabilities, connected, ncmds>>'
         = <<waiting, esmtp, capabilities, connected, ncmds>>

\* C20.  A reply packet that arrives while no command is outstanding is
\* discarded: it resolves no operation and is not delivered to a command
\* issued later; and after a reply was delivered the listener of the command
\* it resolved is no longer registered.
C20_UnsolicitedDiscarded == [](C20_State) /\ [][C20_Step]_vars

\* C20 witness: a packet arrived between the 354 and the terminator of a
\* data operation (the payload waits for the socket to drain) and was
\* discarded; the operation is pending as before.
C20_Witness ==
  /\ event.kind = "packet" /\ event.fired = <<>>
  /\ unsolicited >= 1
  /\ \E i \in 1..Len(ops) :
       /\ ops[i].op = "data"
       /\ Len(ops[i].log) = 3
       /\ IsReply(ops[i].log[2], "354")

\* C20 witness of the later command: after a packet was discarded, a command
\* issued later was resolved by the reply that followed it.
C20_WitnessLater ==
  /\ unsolicited >= 1
  /\ Len(FiredSend) = 1
  /\ \E st \in Settled : st.pr.top /\ st.pr.op \in {"mail", "rcpt", "quit", "data"}

====
